---------------------------- MODULE Spec2Model ----------------------------
(***************************************************************************)
(* Model of src/functions/private.ts of actions-tagger: the event          *)
(* classifier, the version derivation of the triggering event, the ref     *)
(* upserter (createRef) and the paginated ref enumerator (listAllRefs).    *)
(*                                                                         *)
(* A JavaScript string is a sequence of one-character strings.  The value  *)
(* undefined is the one-element sequence Undefined, which is no string.    *)
(***************************************************************************)
EXTENDS Integers, Sequences, FiniteSets, TLC

(***************************************************************************)
(* Bounds of the model.                                                    *)
(***************************************************************************)
MaxRuns == 2
MaxPages == 2
MaxPageLen == 2

(***************************************************************************)
(* Strings.                                                                *)
(***************************************************************************)
Undefined == <<"undefined">>

StartsWith(s, p) ==
    /\ Len(p) <= Len(s)
    /\ SubSeq(s, 1, Len(p)) = p

EndsWith(s, p) ==
    /\ Len(p) <= Len(s)
    /\ SubSeq(s, Len(s) - Len(p) + 1, Len(s)) = p

\* index of the first element of s that lies in the set cs, 0 when none does
IndexOfAny(s, cs) ==
    IF \E k \in 1..Len(s) : s[k] \in cs
    THEN CHOOSE k \in 1..Len(s) :
            /\ s[k] \in cs
            /\ \A j \in 1..(k - 1) : s[j] \notin cs
    ELSE 0

RECURSIVE Split(_, _)
\* s.split(sep): the pieces of s between the occurrences of the character sep
Split(s, sep) ==
    LET k == IndexOfAny(s, {sep})
    IN  IF k = 0
        THEN <<s>>
        ELSE <<SubSeq(s, 1, k - 1)>> \o Split(SubSeq(s, k + 1, Len(s)), sep)

Digits == {"0", "1", "2", "3", "4", "5", "6", "7", "8", "9"}
Letters == {"a", "b", "e", "h", "l", "s", "t", "v"}

DigitVal(c) ==
    CASE c = "0" -> 0 [] c = "1" -> 1 [] c = "2" -> 2 [] c = "3" -> 3
      [] c = "4" -> 4 [] c = "5" -> 5 [] c = "6" -> 6 [] c = "7" -> 7
      [] c = "8" -> 8 [] c = "9" -> 9

RECURSIVE ToNumber(_)
ToNumber(s) ==
    IF s = <<>> THEN 0
    ELSE 10 * ToNumber(SubSeq(s, 1, Len(s) - 1)) + DigitVal(s[Len(s)])

(***************************************************************************)
(* The semver package: parse (strict) and coerce.                          *)
(***************************************************************************)
Null == [ok |-> FALSE, major |-> 0, minor |-> 0, patch |-> 0,
         prerelease |-> <<>>, build |-> <<>>]

\* NUMERICIDENTIFIER: 0|[1-9]\d*
IsNumericIdentifier(s) ==
    /\ Len(s) >= 1
    /\ \A k \in 1..Len(s) : s[k] \in Digits
    /\ (Len(s) > 1 => s[1] # "0")

\* PRERELEASEIDENTIFIER: a numeric identifier, or \d*[a-zA-Z-][a-zA-Z0-9-]*
IsPrereleaseIdentifier(s) ==
    /\ Len(s) >= 1
    /\ \A k \in 1..Len(s) : s[k] \in Digits \cup Letters \cup {"-"}
    /\ \/ IsNumericIdentifier(s)
       \/ \E k \in 1..Len(s) : s[k] \in Letters \cup {"-"}

\* BUILDIDENTIFIER: [a-zA-Z0-9-]+
IsBuildIdentifier(s) ==
    /\ Len(s) >= 1
    /\ \A k \in 1..Len(s) : s[k] \in Digits \cup Letters \cup {"-"}

\* the FULL pattern ^v?MAIN(-PRERELEASE)?(\+BUILD)?$ applied to a string
ParseString(s) ==
    LET body == IF Len(s) >= 1 /\ s[1] = "v" THEN Tail(s) ELSE s
        p    == IndexOfAny(body, {"-", "+"})
        main == IF p = 0 THEN body ELSE SubSeq(body, 1, p - 1)
        rest == IF p = 0 THEN <<>> ELSE SubSeq(body, p + 1, Len(body))
        hasPre == p # 0 /\ body[p] = "-"
        q    == IF hasPre THEN IndexOfAny(rest, {"+"}) ELSE 0
        pre  == IF ~hasPre THEN <<>>
                ELSE IF q = 0 THEN rest ELSE SubSeq(rest, 1, q - 1)
        hasBuild == (p # 0 /\ body[p] = "+") \/ (hasPre /\ q # 0)
        bld  == IF ~hasBuild THEN <<>>
                ELSE IF hasPre THEN SubSeq(rest, q + 1, Len(rest)) ELSE rest
        nums == Split(main, ".")
        preIds == IF hasPre THEN Split(pre, ".") ELSE <<>>
        bldIds == IF hasBuild THEN Split(bld, ".") ELSE <<>>
    IN  IF /\ Len(nums) = 3
           /\ \A k \in 1..3 : IsNumericIdentifier(nums[k])
           /\ \A k \in 1..Len(preIds) : IsPrereleaseIdentifier(preIds[k])
           /\ \A k \in 1..Len(bldIds) : IsBuildIdentifier(bldIds[k])
        THEN [ok |-> TRUE,
              major |-> ToNumber(nums[1]),
              minor |-> ToNumber(nums[2]),
              patch |-> ToNumber(nums[3]),
              prerelease |-> preIds,
              build |-> bldIds]
        ELSE Null

\* the maximal run of digits of s that starts at position k
RECURSIVE DigitRun(_, _)
DigitRun(s, k) ==
    IF k <= Len(s) /\ s[k] \in Digits
    THEN <<s[k]>> \o DigitRun(s, k + 1)
    ELSE <<>>

\* the first number of the string, with up to two further dot-separated
\* numbers, parsed as major.minor.patch; null when the string holds no digit
CoerceString(version) ==
         LET k  == IndexOfAny(version, Digits)
             ma == DigitRun(version, k)
             k2 == k + Len(ma)
             hasMi == /\ k2 + 1 <= Len(version)
                      /\ version[k2] = "."
                      /\ version[k2 + 1] \in Digits
             mi == IF hasMi THEN DigitRun(version, k2 + 1) ELSE <<>>
             k3 == k2 + 1 + Len(mi)
             hasPa == /\ hasMi
                      /\ k3 + 1 <= Len(version)
                      /\ version[k3] = "."
                      /\ version[k3 + 1] \in Digits
             pa == IF hasPa THEN DigitRun(version, k3 + 1) ELSE <<>>
         IN  IF k = 0 THEN Null
             ELSE ParseString(ma \o <<".">>
                              \o (IF hasMi THEN mi ELSE <<"0">>) \o <<".">>
                              \o (IF hasPa THEN pa ELSE <<"0">>))

(***************************************************************************)
(* The strings the model draws its inputs from.                            *)
(***************************************************************************)
REFS == <<"r", "e", "f", "s", "/">>
TAGS == <<"t", "a", "g", "s">>
HEADS == <<"h", "e", "a", "d", "s">>
SLASH == <<"/">>

\* ref names handed to createRef: tags/v1 and heads/v1
TagsV1 == TAGS \o SLASH \o <<"v", "1">>
HeadsV1 == HEADS \o SLASH \o <<"v", "1">>
RefNames == {TagsV1, HeadsV1}

\* the full names a remote may hold: refs/tags/v1, refs/tags/v10,
\* refs/tags/v1-tags/v1 and refs/heads/v1
RefUniverse ==
    { REFS \o TagsV1,
      REFS \o TagsV1 \o <<"0">>,
      REFS \o TagsV1 \o <<"-">> \o TagsV1,
      REFS \o HeadsV1 }

\* commit ids; the history is linear, commit 1 being the parent of commit 2
Commits == {1, 2}
IsAncestor(a, b) == a <= b

\* names of the refs of an enumerated namespace
NameV100 == <<"v", "1", ".", "0", ".", "0">>
Name123a == <<"1", ".", "2", ".", "3", "-", "a">>
NameLatest == <<"l", "a", "t", "e", "s", "t">>
NameV1 == <<"v", "1">>

\* the refs a page of the paged ref query may hold
PageRefs ==
    { [name |-> NameV100, shaId |-> 1],
      [name |-> Name123a, shaId |-> 2],
      [name |-> NameLatest, shaId |-> 2],
      [name |-> NameV1, shaId |-> 1] }

\* event payload values
EventNames == {"release", "push", "workflow_dispatch"}
\* a payload flag: the booleans, a missing field, and a string that is truthy
Flags == {"true", "false", "undefined", "'true'"}
TagNames ==
    { <<"2", ".", "0", ".", "0">>,
      <<"v", "3", ".", "1", "-", "b", "e", "t", "a">>,
      NameLatest,
      Undefined }
PushRefs ==
    { REFS \o HEADS \o SLASH \o <<"v", "1", ".", "0", ".", "0">>,
      REFS \o TAGS \o SLASH \o <<"v", "1", ".", "0", ".", "0">>,
      REFS \o TAGS \o SLASH \o NameLatest,
      REFS \o <<"p", "u", "l", "l", "/", "1">>,
      Undefined }
PreferredRefs == {TAGS, HEADS}

(***************************************************************************)
(* semverParse and coerce as the program calls them.  The results for the  *)
(* version strings of the model are computed once.                         *)
(***************************************************************************)
VersionStrings == {r.name : r \in PageRefs} \cup (TagNames \ {Undefined})

ParseTable == [s \in VersionStrings |-> ParseString(s)]

CoerceTable == [s \in VersionStrings |-> CoerceString(s)]

\* coerce(version): null for what is no string
coerce(version) ==
    IF version = Undefined THEN Null
    ELSE IF version \in VersionStrings THEN CoerceTable[version]
    ELSE CoerceString(version)

\* a parse that takes any string coerce can make a version of
semverParse_coercing(version) == coerce(version)

\* semverParse(version) of a string or undefined: null for what is no string
semverParse(version) ==
    IF version = Undefined THEN Null
    ELSE IF version \in VersionStrings THEN ParseTable[version]
    ELSE ParseString(version)

(***************************************************************************)
(* State.                                                                  *)
(***************************************************************************)
Invocations == {1, 2}
Enumerations == {1, 2}

VARIABLES
    \* the event context and the preference, read-only
    context,        \* [eventName, payload: [release: [present, prerelease, tag_name], created, ref]]
    preferredRef,
    classified,     \* the classifier's results, once computed
    derived,        \* the version derived from the event, once computed
    \* the remote ref store and the runs of createRef
    remoteRefs,     \* full ref name -> commit id, for the refs that exist
    pc,             \* per invocation: idle, lookup, update, create, done, error
    refName,        \* per invocation: the argument of createRef
    GITHUB_SHA,     \* per invocation: process.env.GITHUB_SHA
    isDebug,        \* core.isDebug()
    matchingRefs,   \* per invocation: the data of the lookup's response
    calls,          \* per invocation: the remote calls issued by the current run
    applied,        \* per invocation: the mutating calls of the current run the remote applied
    log,            \* per invocation: the notices of the current run
    outcomes,       \* per invocation: how each finished run ended
    \* the paged ref query and the enumerations of listAllRefs
    pages,          \* the remote's pages of the namespace, in order
    gstate,         \* per enumeration: start, fetching, running, yielded, DONE, error
    nextPage,       \* per enumeration: the cursor
    repository,     \* per enumeration: the page being processed
    idx,            \* per enumeration: position of the inner loop in the page
    produced,       \* per enumeration: the pairs yielded so far
    requests,       \* per enumeration: the cursors of the page requests issued
    fetched,        \* per enumeration: the responses received, in order
    elog            \* per enumeration: the debug lines written

eventVars == <<context, preferredRef, classified, derived>>
upsertVars == <<remoteRefs, pc, refName, GITHUB_SHA, matchingRefs, calls,
                applied, log, outcomes>>
enumVars == <<pages, gstate, nextPage, repository, idx, produced, requests,
              fetched, elog>>
vars == <<eventVars, upsertVars, enumVars, isDebug>>

(***************************************************************************)
(* Event classifier: pure predicates of the event context.                 *)
(***************************************************************************)
isRelease == context.eventName = "release"

\* a prerelease test that also asks for the event to be a release
isPreRelease_releaseOnly ==
    /\ isRelease
    /\ context.release.present
    /\ context.release.prerelease = "true"

\* context.payload.release?.prerelease === true
isPreRelease ==
    /\ context.release.present
    /\ context.release.prerelease = "true"

\* the conjunction without its negation
isPublicRelease_unnegated == isRelease /\ isPreRelease

isPublicRelease == isRelease /\ ~isPreRelease

isPush == context.eventName = "push"

\* the created flag tested for truthiness instead of === true
isNewRefPush_truthy == isPush /\ context.created \in {"true", "'true'"}

isNewRefPush == isPush /\ context.created = "true"

\* context.payload.ref.startsWith(...) is evaluated only when isNewRefPush()
\* holds, and is a TypeError when the payload has no ref
RefReadThrows == isNewRefPush /\ context.ref = Undefined

isBranchPush ==
    /\ isNewRefPush
    /\ context.ref # Undefined
    /\ StartsWith(context.ref, REFS \o HEADS \o SLASH)

isTagPush ==
    /\ isNewRefPush
    /\ context.ref # Undefined
    /\ StartsWith(context.ref, REFS \o TAGS \o SLASH)

\* what a call of a predicate gives its caller
Returned(b) == IF b THEN "true" ELSE "false"
ReturnedOrThrown(b) == IF RefReadThrows THEN "TypeError" ELSE Returned(b)

NotClassified ==
    [isRelease |-> "unset", isPreRelease |-> "unset", isPublicRelease |-> "unset",
     isPush |-> "unset", isNewRefPush |-> "unset", isBranchPush |-> "unset",
     isTagPush |-> "unset"]

\* the caller evaluates the seven predicates on the event
Classify ==
    /\ classified = NotClassified
    /\ classified' =
         [isRelease |-> Returned(isRelease),
          isPreRelease |-> Returned(isPreRelease),
          isPublicRelease |-> Returned(isPublicRelease),
          isPush |-> Returned(isPush),
          isNewRefPush |-> Returned(isNewRefPush),
          isBranchPush |-> ReturnedOrThrown(isBranchPush),
          isTagPush |-> ReturnedOrThrown(isTagPush)]
    /\ UNCHANGED <<context, preferredRef, derived, upsertVars, enumVars, isDebug>>

(***************************************************************************)
(* The version of the triggering event.                                    *)
(***************************************************************************)
\* the result slot of a function that was not called yet
Unset == [status |-> "unset", value |-> Null]

\* semverParse of what coerce returned: a SemVer is returned as it is, null
\* gives null
semverParseObject(v) == IF v.ok THEN v ELSE Null

\* (context.payload.ref as string)?.replace(new RegExp(`^refs/${preferredRef}/`), '')
StripRefPrefix(ref, preferred) ==
    IF ref = Undefined THEN Undefined
    ELSE LET prefix == REFS \o preferred \o SLASH
         IN  IF StartsWith(ref, prefix)
             THEN SubSeq(ref, Len(prefix) + 1, Len(ref))
             ELSE ref

\* the ref read without the optional chaining: replace called on undefined
getPushRefVersion_unguarded(preferred) ==
    IF context.ref = Undefined
    THEN [status |-> "threw", value |-> Null]
    ELSE [status |-> "returned",
          value |-> semverParse(StripRefPrefix(context.ref, preferred))]

getPushRefVersion(preferred) ==
    [status |-> "returned",
     value |-> semverParse(StripRefPrefix(context.ref, preferred))]

\* the release tag coerced on every release, prerelease or not
getReleaseTag_alwaysCoerce ==
    LET tagName == IF context.release.present
                   THEN context.release.tag_name
                   ELSE Undefined
    IN  [status |-> "returned",
         value |-> semverParseObject(coerce(tagName))]

getReleaseTag ==
    LET tagName == IF context.release.present
                   THEN context.release.tag_name
                   ELSE Undefined
    IN  [status |-> "returned",
         value |-> IF isPreRelease
                   THEN semverParseObject(coerce(tagName))
                   ELSE semverParse(tagName)]

GetPushRefVersion ==
    /\ derived.push = Unset
    /\ derived' = [derived EXCEPT !.push = getPushRefVersion(preferredRef)]
    /\ UNCHANGED <<context, preferredRef, classified, upsertVars, enumVars, isDebug>>

GetReleaseTag ==
    /\ derived.release = Unset
    /\ derived' = [derived EXCEPT !.release = getReleaseTag]
    /\ UNCHANGED <<context, preferredRef, classified, upsertVars, enumVars, isDebug>>

Releases ==
    {[present |-> FALSE, prerelease |-> "undefined", tag_name |-> Undefined]}
    \cup [present : {TRUE}, prerelease : Flags, tag_name : TagNames]

Contexts ==
    [eventName : EventNames, release : Releases, created : Flags, ref : PushRefs]

\* an event context on which nothing was computed yet
EventFresh ==
    /\ classified = NotClassified
    /\ derived = [release |-> Unset, push |-> Unset]

(***************************************************************************)
(* The remote ref store, as the REST calls of createRef see it.            *)
(***************************************************************************)
\* git.listMatchingRefs: the refs whose full name starts with refs/<ref>
ListMatchingRefs(refs, ref) ==
    {r \in DOMAIN refs : StartsWith(r, REFS \o ref)}

\* the full name of the ref a mutating call is about: updateRef takes the
\* name without refs/, createRef the fully qualified name
TargetOf(req) ==
    IF req.kind = "updateRef" THEN REFS \o req.ref ELSE req.ref

\* whether the remote applies a mutating call: an update needs the ref to
\* exist and, unless forced, to fast-forward; a create needs it not to exist
RemoteAccepts(req, refs) ==
    IF req.kind = "updateRef"
    THEN /\ TargetOf(req) \in DOMAIN refs
         /\ (req.force \/ IsAncestor(refs[TargetOf(req)], req.sha))
    ELSE TargetOf(req) \notin DOMAIN refs

RemoteApply(req, refs) ==
    [r \in DOMAIN refs \cup {TargetOf(req)} |->
        IF r = TargetOf(req) THEN req.sha ELSE refs[r]]

(***************************************************************************)
(* createRef(github, refName), one action per stretch between two awaits.  *)
(***************************************************************************)
LookupRequest(i) ==
    [kind |-> "listMatchingRefs", ref |-> refName[i], sha |-> GITHUB_SHA[i],
     force |-> FALSE]

UpdateRequest(i) ==
    [kind |-> "updateRef", ref |-> refName[i], sha |-> GITHUB_SHA[i],
     force |-> TRUE]

\* createRef called with the name it was given, without the refs/ in front
CreateRequest_unqualified(i) ==
    [kind |-> "createRef", ref |-> refName[i], sha |-> GITHUB_SHA[i],
     force |-> FALSE]

CreateRequest(i) ==
    [kind |-> "createRef", ref |-> REFS \o refName[i], sha |-> GITHUB_SHA[i],
     force |-> FALSE]

\* matchingRefs.find(refObj => refObj.ref.endsWith(refName)) !== undefined
HasMatchingRef(data, name) == \E r \in data : EndsWith(r, name)

\* the record of a finished run
Outcome(i, status, fault, refs) ==
    [status |-> status,
     before |-> remoteRefs,
     path |-> IF Len(calls[i]) >= 2 THEN calls[i][2].kind ELSE "none",
     applied |-> Len(applied[i]),
     fault |-> fault,
     refs |-> refs]

\* a run that does not await the lookup: the create call leaves with it
Call_unawaited(i) ==
    /\ pc[i] \in {"idle", "done", "error"}
    /\ Len(outcomes[i]) < MaxRuns
    /\ pc' = [pc EXCEPT ![i] = "lookup"]
    /\ calls' = [calls EXCEPT ![i] = <<LookupRequest(i), CreateRequest(i)>>]
    /\ matchingRefs' = [matchingRefs EXCEPT ![i] = {}]
    /\ applied' = [applied EXCEPT ![i] = <<>>]
    /\ log' = [log EXCEPT ![i] = <<>>]
    /\ UNCHANGED <<remoteRefs, refName, GITHUB_SHA, outcomes, eventVars, enumVars, isDebug>>

\* the caller invokes createRef: the run issues the existence lookup
Call(i) ==
    /\ pc[i] \in {"idle", "done", "error"}
    /\ Len(outcomes[i]) < MaxRuns
    /\ pc' = [pc EXCEPT ![i] = "lookup"]
    /\ calls' = [calls EXCEPT ![i] = <<LookupRequest(i)>>]
    /\ matchingRefs' = [matchingRefs EXCEPT ![i] = {}]
    /\ applied' = [applied EXCEPT ![i] = <<>>]
    /\ log' = [log EXCEPT ![i] = <<>>]
    /\ UNCHANGED <<remoteRefs, refName, GITHUB_SHA, outcomes, eventVars, enumVars, isDebug>>

\* the lookup answers: the notice is written and the mutating call issued
LookupOk(i) ==
    /\ pc[i] = "lookup"
    /\ LET data == ListMatchingRefs(remoteRefs, refName[i])
       IN  /\ matchingRefs' = [matchingRefs EXCEPT ![i] = data]
           /\ IF HasMatchingRef(data, refName[i])
              THEN /\ log' = [log EXCEPT ![i] = Append(@, "Updating ref")]
                   /\ calls' = [calls EXCEPT ![i] = Append(@, UpdateRequest(i))]
                   /\ pc' = [pc EXCEPT ![i] = "update"]
              ELSE /\ log' = [log EXCEPT ![i] = Append(@, "Creating ref")]
                   /\ calls' = [calls EXCEPT ![i] = Append(@, CreateRequest(i))]
                   /\ pc' = [pc EXCEPT ![i] = "create"]
    /\ UNCHANGED <<remoteRefs, refName, GITHUB_SHA, applied, outcomes, eventVars, enumVars, isDebug>>

\* the lookup is rejected: the error leaves createRef
LookupFail(i) ==
    /\ pc[i] = "lookup"
    /\ pc' = [pc EXCEPT ![i] = "error"]
    /\ outcomes' = [outcomes EXCEPT ![i] = Append(@, Outcome(i, "error", TRUE, remoteRefs))]
    /\ UNCHANGED <<remoteRefs, refName, GITHUB_SHA, matchingRefs, calls, applied, log,
                   eventVars, enumVars, isDebug>>

\* a completion that writes the response whether debug is on or not
MutationOk_verbose(i) ==
    LET req == calls[i][Len(calls[i])]
        refs == RemoteApply(req, remoteRefs)
        done == [applied EXCEPT ![i] = Append(@, req)]
    IN  /\ RemoteAccepts(req, remoteRefs)
        /\ remoteRefs' = refs
        /\ applied' = done
        /\ log' = [log EXCEPT ![i] = Append(@, "now points to")]
        /\ pc' = [pc EXCEPT ![i] = "done"]
        /\ outcomes' = [outcomes EXCEPT ![i] =
                          Append(@, [Outcome(i, "done", FALSE, refs)
                                       EXCEPT !.applied = Len(done[i])])]
        /\ UNCHANGED <<refName, GITHUB_SHA, matchingRefs, calls, eventVars, enumVars, isDebug>>

\* the remote applies the mutating call of the run and the run completes,
\* writing the response under debug
MutationOk(i) ==
    LET req == calls[i][Len(calls[i])]
        refs == RemoteApply(req, remoteRefs)
        done == [applied EXCEPT ![i] = Append(@, req)]
    IN  /\ RemoteAccepts(req, remoteRefs)
        /\ remoteRefs' = refs
        /\ applied' = done
        /\ log' = [log EXCEPT ![i] = IF isDebug THEN Append(@, "now points to") ELSE @]
        /\ pc' = [pc EXCEPT ![i] = "done"]
        /\ outcomes' = [outcomes EXCEPT ![i] =
                          Append(@, [Outcome(i, "done", FALSE, refs)
                                       EXCEPT !.applied = Len(done[i])])]
        /\ UNCHANGED <<refName, GITHUB_SHA, matchingRefs, calls, eventVars, enumVars, isDebug>>

\* a rejected mutating call that is caught and passed over: the run completes
MutationFail_swallowed(i) ==
    /\ pc' = [pc EXCEPT ![i] = "done"]
    /\ outcomes' = [outcomes EXCEPT ![i] =
                      Append(@, Outcome(i, "done", FALSE, remoteRefs))]
    /\ UNCHANGED <<remoteRefs, refName, GITHUB_SHA, matchingRefs, calls, applied, log,
                   eventVars, enumVars, isDebug>>

\* the mutating call is rejected, by the remote's rules or by a fault of the
\* transport (fault: the remote would have applied it): the error leaves createRef
MutationFail(i) ==
    LET req == calls[i][Len(calls[i])]
    IN  /\ pc' = [pc EXCEPT ![i] = "error"]
        /\ outcomes' = [outcomes EXCEPT ![i] =
                          Append(@, Outcome(i, "error", RemoteAccepts(req, remoteRefs),
                                            remoteRefs))]
        /\ UNCHANGED <<remoteRefs, refName, GITHUB_SHA, matchingRefs, calls, applied, log,
                       eventVars, enumVars, isDebug>>

UpdateOk(i) == pc[i] = "update" /\ MutationOk(i)

UpdateFail(i) == pc[i] = "update" /\ MutationFail(i)

CreateOk(i) == pc[i] = "create" /\ MutationOk(i)

CreateFail(i) == pc[i] = "create" /\ MutationFail(i)

\* the remote ref stores: every set of refs of the universe, each at a commit
RemoteStores ==
    UNION {[D -> Commits] : D \in SUBSET RefUniverse}

\* no run of createRef was started
UpsertIdle ==
    /\ pc = [i \in Invocations |-> "idle"]
    /\ matchingRefs = [i \in Invocations |-> {}]
    /\ calls = [i \in Invocations |-> <<>>]
    /\ applied = [i \in Invocations |-> <<>>]
    /\ log = [i \in Invocations |-> <<>>]
    /\ outcomes = [i \in Invocations |-> <<>>]

(***************************************************************************)
(* The paged ref query, as the GraphQL call of listAllRefs sees it.        *)
(***************************************************************************)
CursorChars == <<"1", "2", "3", "4", "5", "6", "7", "8", "9">>

\* the cursor the remote returns with its k-th page
EndCursor(k) == <<"c", CursorChars[k]>>

\* the page a request with this cursor asks for: the first without a cursor,
\* the one after page k with the cursor of page k
PageIndex(cursor) ==
    IF cursor = Undefined THEN 1
    ELSE 1 + CHOOSE k \in 1..Len(CursorChars) : EndCursor(k) = cursor

\* repository.refs of the response to a request with this cursor
ServePage(cursor) ==
    LET k == PageIndex(cursor)
    IN  IF k <= Len(pages)
        THEN [refsList |-> pages[k], hasNextPage |-> k < Len(pages),
              endCursor |-> EndCursor(k)]
        ELSE [refsList |-> <<>>, hasNextPage |-> FALSE, endCursor |-> cursor]

NoPage == [refsList |-> <<>>, hasNextPage |-> FALSE, endCursor |-> Undefined]

(***************************************************************************)
(* listAllRefs(github, preferredRef): an async generator.  One action per  *)
(* stretch of its body between two suspensions, and one per ref of a page. *)
(***************************************************************************)
\* a page request that never carries the cursor
SendPageRequest_noCursor(e, cursor) ==
    /\ requests' = [requests EXCEPT ![e] = Append(@, Undefined)]
    /\ gstate' = [gstate EXCEPT ![e] = "fetching"]

\* the generator sends the page request with its cursor and awaits the answer
SendPageRequest(e, cursor) ==
    /\ requests' = [requests EXCEPT ![e] = Append(@, cursor)]
    /\ gstate' = [gstate EXCEPT ![e] = "fetching"]

\* the caller pulls: a fresh generator enters the loop and requests the first
\* page, a generator suspended at a yield goes on with the page
Pull(e) ==
    /\ gstate[e] \in {"start", "yielded"}
    /\ IF gstate[e] = "start"
       THEN SendPageRequest(e, nextPage[e])
       ELSE /\ gstate' = [gstate EXCEPT ![e] = "running"]
            /\ UNCHANGED requests
    /\ UNCHANGED <<pages, nextPage, repository, idx, produced, fetched, elog,
                   eventVars, upsertVars, isDebug>>

\* a generator that asks for the page after this one as soon as this one
\* arrives, before the caller consumed any of it
ReceivePage_prefetch(e) ==
    /\ gstate[e] = "fetching"
    /\ repository' = [repository EXCEPT ![e] = ServePage(nextPage[e])]
    /\ fetched' = [fetched EXCEPT ![e] = Append(@, ServePage(nextPage[e]))]
    /\ idx' = [idx EXCEPT ![e] = 1]
    /\ gstate' = [gstate EXCEPT ![e] = "running"]
    /\ requests' = [requests EXCEPT ![e] =
                       IF ServePage(nextPage[e]).hasNextPage
                       THEN Append(@, ServePage(nextPage[e]).endCursor)
                       ELSE @]
    /\ UNCHANGED <<pages, nextPage, produced, elog,
                   eventVars, upsertVars, isDebug>>

\* the response arrives: the inner loop starts at the head of its list
ReceivePage(e) ==
    /\ gstate[e] = "fetching"
    /\ repository' = [repository EXCEPT ![e] = ServePage(nextPage[e])]
    /\ fetched' = [fetched EXCEPT ![e] = Append(@, ServePage(nextPage[e]))]
    /\ idx' = [idx EXCEPT ![e] = 1]
    /\ gstate' = [gstate EXCEPT ![e] = "running"]
    /\ UNCHANGED <<pages, nextPage, produced, requests, elog,
                   eventVars, upsertVars, isDebug>>

\* the request is rejected: the error leaves the generator
ReceiveError(e) ==
    /\ gstate[e] = "fetching"
    /\ gstate' = [gstate EXCEPT ![e] = "error"]
    /\ UNCHANGED <<pages, nextPage, repository, idx, produced, requests, fetched, elog,
                   eventVars, upsertVars, isDebug>>

\* an inner loop without the test of the parse's result
Yields_all(ref) == TRUE

\* whether the inner loop yields the ref
Yields(ref) == semverParse(ref.name).ok

\* one pass of the inner loop: the ref is parsed; a version is yielded with
\* the ref's commit id, anything else is passed over
VisitRef(e) ==
    /\ gstate[e] = "running"
    /\ idx[e] <= Len(repository[e].refsList)
    /\ LET ref == repository[e].refsList[idx[e]]
           semverRef == semverParse(ref.name)
       IN  IF Yields(ref)
           THEN /\ produced' = [produced EXCEPT ![e] = Append(@, <<semverRef, ref.shaId>>)]
                /\ gstate' = [gstate EXCEPT ![e] = "yielded"]
                /\ elog' = [elog EXCEPT ![e] =
                              IF isDebug THEN Append(@, <<"checking", ref.name>>) ELSE @]
           ELSE /\ UNCHANGED <<produced, gstate>>
                /\ elog' = [elog EXCEPT ![e] =
                              IF isDebug THEN Append(@, <<"ignoring", ref.name>>) ELSE @]
    /\ idx' = [idx EXCEPT ![e] = @ + 1]
    /\ UNCHANGED <<pages, nextPage, repository, requests, fetched,
                   eventVars, upsertVars, isDebug>>

\* an outer loop that stops after its first page
HasNextPage_never(e) == FALSE

\* whether the outer loop goes on to another page
HasNextPage(e) == repository[e].hasNextPage

\* a generator whose cursor is one variable shared by every enumeration
EndOfPage_sharedCursor(e) ==
    /\ gstate[e] = "running"
    /\ idx[e] > Len(repository[e].refsList)
    /\ IF HasNextPage(e)
       THEN /\ nextPage' = [f \in Enumerations |-> repository[e].endCursor]
            /\ SendPageRequest(e, repository[e].endCursor)
       ELSE /\ gstate' = [gstate EXCEPT ![e] = "DONE"]
            /\ UNCHANGED <<nextPage, requests>>
    /\ UNCHANGED <<pages, repository, idx, produced, fetched, elog,
                   eventVars, upsertVars, isDebug>>

\* the page is exhausted: the cursor advances and the next page is requested,
\* or the loop is left and the generator returns
EndOfPage(e) ==
    /\ gstate[e] = "running"
    /\ idx[e] > Len(repository[e].refsList)
    /\ IF HasNextPage(e)
       THEN /\ nextPage' = [nextPage EXCEPT ![e] = repository[e].endCursor]
            /\ SendPageRequest(e, repository[e].endCursor)
       ELSE /\ gstate' = [gstate EXCEPT ![e] = "DONE"]
            /\ UNCHANGED <<nextPage, requests>>
    /\ UNCHANGED <<pages, repository, idx, produced, fetched, elog,
                   eventVars, upsertVars, isDebug>>

\* the caller stops consuming: the suspended generator is closed
Close(e) ==
    /\ gstate[e] \in {"start", "yielded"}
    /\ gstate' = [gstate EXCEPT ![e] = "closed"]
    /\ UNCHANGED <<pages, nextPage, repository, idx, produced, requests, fetched, elog,
                   eventVars, upsertVars, isDebug>>

\* sequences of at most n elements of S, without repetition
DistinctSeqs(S, n) ==
    {q \in UNION {[1..k -> S] : k \in 0..n} :
        \A a, b \in DOMAIN q : q[a] = q[b] => a = b}

RECURSIVE Flatten(_)
Flatten(ps) == IF ps = <<>> THEN <<>> ELSE Head(ps) \o Flatten(Tail(ps))

\* the ways a remote serves a namespace: at least one page, at most MaxPages,
\* each of at most MaxPageLen refs, no ref on two places
PageLists ==
    {ps \in UNION {[1..n -> DistinctSeqs(PageRefs, MaxPageLen)] : n \in 1..MaxPages} :
        \A a, b \in DOMAIN Flatten(ps) : Flatten(ps)[a] = Flatten(ps)[b] => a = b}

\* no enumeration was started
EnumIdle ==
    /\ gstate = [e \in Enumerations |-> "start"]
    /\ nextPage = [e \in Enumerations |-> Undefined]
    /\ repository = [e \in Enumerations |-> NoPage]
    /\ idx = [e \in Enumerations |-> 1]
    /\ produced = [e \in Enumerations |-> <<>>]
    /\ requests = [e \in Enumerations |-> <<>>]
    /\ fetched = [e \in Enumerations |-> <<>>]
    /\ elog = [e \in Enumerations |-> <<>>]

(***************************************************************************)
(* Specifications.                                                         *)
(***************************************************************************)
\* the part of the state a specification leaves alone
NoEvent ==
    /\ context = [eventName |-> "workflow_dispatch",
                  release |-> [present |-> FALSE, prerelease |-> "undefined",
                               tag_name |-> Undefined],
                  created |-> "undefined", ref |-> Undefined]
    /\ preferredRef = TAGS
    /\ EventFresh

NoUpsert ==
    /\ remoteRefs = <<>>
    /\ refName = [i \in Invocations |-> TagsV1]
    /\ GITHUB_SHA = [i \in Invocations |-> 1]
    /\ UpsertIdle

NoEnum ==
    /\ pages = << <<>> >>
    /\ EnumIdle

\* the classifier and the version derivation on every event context
InitEvent ==
    /\ context \in Contexts
    /\ preferredRef \in PreferredRefs
    /\ EventFresh
    /\ isDebug = FALSE
    /\ NoUpsert
    /\ NoEnum

NextEvent ==
    \/ Classify
    \/ GetPushRefVersion
    \/ GetReleaseTag

SpecEvent == InitEvent /\ [][NextEvent]_vars

\* one invocation running createRef, up to MaxRuns times in sequence with the
\* same arguments, against every remote ref store
InitUpsert ==
    /\ remoteRefs \in RemoteStores
    /\ refName \in {[i \in Invocations |-> n] : n \in RefNames}
    /\ GITHUB_SHA \in {[i \in Invocations |-> c] : c \in Commits}
    /\ isDebug \in BOOLEAN
    /\ UpsertIdle
    /\ NoEvent
    /\ NoEnum

NextUpsert ==
    \/ Call(1)
    \/ LookupOk(1)
    \/ LookupFail(1)
    \/ UpdateOk(1)
    \/ UpdateFail(1)
    \/ CreateOk(1)
    \/ CreateFail(1)

SpecUpsert == InitUpsert /\ [][NextUpsert]_vars

\* two invocations running createRef on the same ref name, each with its own
\* commit, against every remote ref store: their remote calls interleave in
\* every order
InitRace ==
    /\ remoteRefs \in RemoteStores
    /\ refName \in {[i \in Invocations |-> n] : n \in RefNames}
    /\ GITHUB_SHA \in [Invocations -> Commits]
    /\ isDebug \in BOOLEAN
    /\ UpsertIdle
    /\ NoEvent
    /\ NoEnum

NextRace ==
    \E i \in Invocations :
        \/ Call(i)
        \/ LookupOk(i)
        \/ LookupFail(i)
        \/ UpdateOk(i)
        \/ UpdateFail(i)
        \/ CreateOk(i)
        \/ CreateFail(i)

SpecRace == InitRace /\ [][NextRace]_vars

\* one enumeration by listAllRefs over every paged namespace
InitEnum ==
    /\ pages \in PageLists
    /\ isDebug \in BOOLEAN
    /\ EnumIdle
    /\ NoEvent
    /\ NoUpsert

NextEnum ==
    \/ Pull(1)
    \/ ReceivePage(1)
    \/ ReceiveError(1)
    \/ VisitRef(1)
    \/ EndOfPage(1)
    \/ Close(1)

SpecEnum == InitEnum /\ [][NextEnum]_vars

\* two enumerations by listAllRefs over the same paged namespace, pulled,
\* answered and closed in every interleaving
NextInterleaved ==
    \E e \in Enumerations :
        \/ Pull(e)
        \/ ReceivePage(e)
        \/ ReceiveError(e)
        \/ VisitRef(e)
        \/ EndOfPage(e)
        \/ Close(e)

SpecInterleaved == InitEnum /\ [][NextInterleaved]_vars

\* an enumeration whose caller keeps pulling and whose every page request is
\* answered: each step of the generator that can be taken is taken
NextPulled ==
    \/ Pull(1)
    \/ ReceivePage(1)
    \/ VisitRef(1)
    \/ EndOfPage(1)

SpecPulled == InitEnum /\ [][NextPulled]_vars /\ WF_vars(NextPulled)

(***************************************************************************)
(* Properties of createRef, under SpecUpsert.                              *)
(***************************************************************************)
\* the number of calls of one kind among the calls of a run
CountCalls(cs, kind) == Cardinality({k \in DOMAIN cs : cs[k].kind = kind})

\* C1: once the lookup of a run has answered, the run has issued exactly one
\* create call and no update call when the remote holds no ref named
\* refs/{refName}, and exactly one update call and no create call when it
\* holds that ref, whatever other refs the remote holds; a finished run has
\* issued no further mutating call.
C1_OneCallByExistence ==
    \A i \in Invocations :
        /\ pc[i] \in {"update", "create"} =>
             IF REFS \o refName[i] \in DOMAIN remoteRefs
             THEN /\ CountCalls(calls[i], "updateRef") = 1
                  /\ CountCalls(calls[i], "createRef") = 0
             ELSE /\ CountCalls(calls[i], "createRef") = 1
                  /\ CountCalls(calls[i], "updateRef") = 0
        /\ CountCalls(calls[i], "updateRef") + CountCalls(calls[i], "createRef") <= 1

\* C2: after a run of createRef that completes without error the remote ref
\* refs/{refName} points at GITHUB_SHA, whatever it pointed at before, and
\* every update call the run issued is forced.
C2_ConvergesToSha ==
    \A i \in Invocations :
        /\ pc[i] = "done" =>
             /\ REFS \o refName[i] \in DOMAIN remoteRefs
             /\ remoteRefs[REFS \o refName[i]] = GITHUB_SHA[i]
        /\ \A k \in DOMAIN calls[i] :
             calls[i][k].kind = "updateRef" => calls[i][k].force

\* a completed run that moved the ref off a commit that is no ancestor of
\* GITHUB_SHA
C2_Witness ==
    \E i \in Invocations :
        /\ pc[i] = "done"
        /\ LET o == outcomes[i][Len(outcomes[i])]
               target == REFS \o refName[i]
           IN  /\ o.path = "updateRef"
               /\ target \in DOMAIN o.before
               /\ ~IsAncestor(o.before[target], GITHUB_SHA[i])
               /\ remoteRefs[target] = GITHUB_SHA[i]

\* C3: when createRef has run twice in sequence with the same arguments and
\* no fault of the transport, the remote ref store after the second run
\* equals the one after the first, and the second run completed without
\* error on the update path.
C3_Idempotent ==
    \A i \in Invocations :
        (/\ Len(outcomes[i]) >= 2
         /\ ~outcomes[i][1].fault
         /\ ~outcomes[i][2].fault) =>
            /\ outcomes[i][2].refs = outcomes[i][1].refs
            /\ outcomes[i][2].status = "done"
            /\ outcomes[i][2].path = "updateRef"

\* C4: a run whose lookup is rejected ends in error having issued no create
\* or update call and leaves the remote ref store as it was; a run whose
\* create or update call is rejected ends in error with the remote ref store
\* as it was; a run in error never completes, and a run completes only with
\* its mutating call applied.
C4_ErrorsAreFatal ==
    [][\A i \in Invocations :
        /\ (pc[i] = "lookup" /\ pc'[i] # "lookup" /\ calls'[i] = calls[i]) =>
              /\ pc'[i] = "error"
              /\ remoteRefs' = remoteRefs
              /\ CountCalls(calls'[i], "updateRef") = 0
              /\ CountCalls(calls'[i], "createRef") = 0
        /\ (pc[i] \in {"update", "create"} /\ pc'[i] # pc[i] /\ applied'[i] = applied[i]) =>
              /\ pc'[i] = "error"
              /\ remoteRefs' = remoteRefs
        /\ pc[i] = "error" => pc'[i] \in {"error", "lookup"}
        /\ (pc[i] # "done" /\ pc'[i] = "done") => Len(applied'[i]) = 1
      ]_vars

\* a run ended in error by the rejection of its create call
C4_Witness ==
    \E i \in Invocations :
        /\ pc[i] = "error"
        /\ outcomes[i][Len(outcomes[i])].path = "createRef"
        /\ outcomes[i][Len(outcomes[i])].fault

(***************************************************************************)
(* Properties of listAllRefs, under SpecEnum and SpecPulled.               *)
(***************************************************************************)
RECURSIVE ParsedPairs(_)
\* the pairs of the refs of a list whose names parse, in the list's order
ParsedPairs(refs) ==
    IF refs = <<>> THEN <<>>
    ELSE (IF semverParse(Head(refs).name).ok
          THEN << <<semverParse(Head(refs).name), Head(refs).shaId>> >>
          ELSE <<>>) \o ParsedPairs(Tail(refs))

\* C5: every pair yielded so far is (parse(name), commit id) of a ref of a
\* page already fetched whose name parses as a semantic version; the pass of
\* the inner loop over a ref whose name does not parse yields nothing, and
\* leaves the enumeration running, at the next ref.
C5_OnlyVersionsYielded ==
    /\ [](\A e \in Enumerations : \A k \in DOMAIN produced[e] :
            \E p \in DOMAIN fetched[e] : \E j \in DOMAIN fetched[e][p].refsList :
                LET ref == fetched[e][p].refsList[j]
                IN  /\ semverParse(ref.name).ok
                    /\ produced[e][k] = <<semverParse(ref.name), ref.shaId>>)
    /\ [][\A e \in Enumerations :
            (/\ gstate[e] = "running"
             /\ idx[e] <= Len(repository[e].refsList)
             /\ idx'[e] # idx[e]
             /\ ~semverParse(repository[e].refsList[idx[e]].name).ok) =>
                /\ produced'[e] = produced[e]
                /\ gstate'[e] = "running"
                /\ idx'[e] = idx[e] + 1
                /\ repository'[e] = repository[e]
         ]_vars

\* an enumeration that passed over a ref whose name does not parse and
\* yielded a later ref
C5_Witness ==
    \E e \in Enumerations :
        /\ Len(produced[e]) >= 1
        /\ \E p \in DOMAIN fetched[e] : \E j, k \in DOMAIN fetched[e][p].refsList :
              /\ j < k
              /\ ~semverParse(fetched[e][p].refsList[j].name).ok
              /\ produced[e][Len(produced[e])] =
                    <<semverParse(fetched[e][p].refsList[k].name),
                      fetched[e][p].refsList[k].shaId>>

\* C6: an enumeration consumed to its end over a namespace served as N pages
\* has issued exactly N page requests, has received the N pages in order, and
\* has yielded the concatenation, in that order, of each page's parsing refs
\* in the page's order.
C6_AllPagesInOrder ==
    \A e \in Enumerations :
        gstate[e] = "DONE" =>
            /\ Len(requests[e]) = Len(pages)
            /\ Len(fetched[e]) = Len(pages)
            /\ \A k \in DOMAIN pages :
                  /\ fetched[e][k].refsList = pages[k]
                  /\ fetched[e][k].hasNextPage = (k < Len(pages))
            /\ produced[e] = ParsedPairs(Flatten(pages))

\* an enumeration at its end that yielded versions from two pages
C6_Witness ==
    \E e \in Enumerations :
        /\ gstate[e] = "DONE"
        /\ Len(pages) >= 2
        /\ ParsedPairs(pages[1]) # <<>>
        /\ ParsedPairs(pages[2]) # <<>>
        /\ produced[e] = ParsedPairs(pages[1]) \o ParsedPairs(pages[2])

\* names that are no semantic version: latest, v1
NonVersions == {NameLatest, NameV1}

\* no ref of the namespace has a version for its name
NoVersionNames ==
    \A k \in DOMAIN pages : \A j \in DOMAIN pages[k] : pages[k][j].name \in NonVersions

\* C7: over a namespace none of whose refs has a name that parses, an
\* enumeration the caller keeps pulling eventually is DONE having yielded
\* nothing.
C7_EmptyTerminates ==
    NoVersionNames ~> (gstate[1] = "DONE" /\ produced[1] = <<>>)

\* an enumeration at its end over two pages that hold refs, none yielded
C7_Witness ==
    /\ NoVersionNames
    /\ Len(pages) >= 2
    /\ pages[1] # <<>>
    /\ pages[2] # <<>>
    /\ gstate[1] = "DONE"
    /\ produced[1] = <<>>
    /\ Len(requests[1]) = Len(pages)

(***************************************************************************)
(* Properties of the event classifier and of the version derivation,       *)
(* under SpecEvent.                                                        *)
(***************************************************************************)
\* the payload of the event names no tag
NoTagName == ~context.release.present \/ context.release.tag_name = Undefined

\* no call to the remote was issued
NoRemoteCall ==
    /\ \A i \in Invocations : calls[i] = <<>>
    /\ \A e \in Enumerations : requests[e] = <<>>

\* C8 as stated: on a release event without a tag name getReleaseTag, and on
\* a push event without a ref getPushRefVersion, ends in a fatal error
\* instead of returning a value, and no remote call is made.
C8_MissingContextIsFatal ==
    /\ (context.eventName = "release" /\ NoTagName /\ derived.release # Unset) =>
            derived.release.status = "threw"
    /\ (context.eventName = "push" /\ context.ref = Undefined /\ derived.push # Unset) =>
            derived.push.status = "threw"
    /\ NoRemoteCall

\* C8 as the code has it: on a release event without a tag name
\* getReleaseTag, and on a push event without a ref getPushRefVersion,
\* returns null without raising an error, and no remote call is made.
C8_MissingContextGivesNull ==
    /\ (context.eventName = "release" /\ NoTagName /\ derived.release # Unset) =>
            derived.release = [status |-> "returned", value |-> Null]
    /\ (context.eventName = "push" /\ context.ref = Undefined /\ derived.push # Unset) =>
            derived.push = [status |-> "returned", value |-> Null]
    /\ NoRemoteCall

\* the version of a push event without a ref was derived
C8_Witness ==
    /\ context.eventName = "push"
    /\ context.ref = Undefined
    /\ derived.push.status = "returned"
    /\ derived.push.value = Null

\* C9: on every event context isPublicRelease() returns true exactly when
\* isRelease() returns true and isPreRelease() returns false.
C9_PublicReleaseIff ==
    classified # NotClassified =>
        /\ classified.isPublicRelease \in {"true", "false"}
        /\ classified.isPublicRelease = "true" <=>
              (classified.isRelease = "true" /\ classified.isPreRelease = "false")

\* a release event that is no prerelease was classified as public
C9_Witness ==
    /\ context.eventName = "release"
    /\ context.release.present
    /\ context.release.prerelease = "false"
    /\ classified.isPublicRelease = "true"

\* C10: on every event context with a ref string isBranchPush() and
\* isTagPush() are not both true, and each of them being true implies that
\* isNewRefPush() is true: the event is a push and its created flag is
\* exactly true.
C10_BranchTagExclusive ==
    (classified # NotClassified /\ context.ref # Undefined) =>
        /\ ~(classified.isBranchPush = "true" /\ classified.isTagPush = "true")
        /\ \A which \in {"isBranchPush", "isTagPush"} :
              classified[which] = "true" =>
                 /\ classified.isNewRefPush = "true"
                 /\ context.eventName = "push"
                 /\ context.created = "true"

\* a push that created a tag was classified as a tag push and no branch push
C10_Witness ==
    /\ context.ref = REFS \o TAGS \o SLASH \o NameV100
    /\ classified.isTagPush = "true"
    /\ classified.isBranchPush = "false"
    /\ classified.isNewRefPush = "true"

(***************************************************************************)
(* C11                                                                     *)
(***************************************************************************)
\* the release of the context is flagged as a prerelease
PrereleaseFlagged ==
    context.release.present /\ context.release.prerelease = "true"

\* the tag name of the release in the context, undefined without a release
ReleaseTagName ==
    IF context.release.present THEN context.release.tag_name ELSE Undefined

\* a tag name that only coercion makes a version of
CoercionOnly(tag) ==
    tag # Undefined /\ ~ParseString(tag).ok /\ CoerceString(tag).ok

\* C11: getReleaseTag coerces the release tag name before parsing exactly
\* when isPreRelease() holds: the result is then the coerced version, and
\* otherwise the strict parse of the tag name, so that a tag name that only
\* coercion accepts gives null on a release that is no prerelease.
C11_CoercesOnlyPreRelease ==
    derived.release # Unset =>
        /\ derived.release.status = "returned"
        /\ derived.release.value =
             IF ReleaseTagName = Undefined THEN Null
             ELSE IF PrereleaseFlagged THEN CoerceString(ReleaseTagName)
             ELSE ParseString(ReleaseTagName)
        /\ (~PrereleaseFlagged /\ CoercionOnly(ReleaseTagName)
                => derived.release.value = Null)
        /\ (PrereleaseFlagged /\ CoercionOnly(ReleaseTagName)
                => derived.release.value.ok)

\* a release that is no prerelease, tagged v3.1-beta, resolved to null
C11_Witness ==
    /\ derived.release # Unset
    /\ ~PrereleaseFlagged
    /\ context.release.present
    /\ CoercionOnly(ReleaseTagName)
    /\ derived.release.value = Null

(***************************************************************************)
(* C12                                                                     *)
(***************************************************************************)
\* the page requests of enumeration e that have no response yet
Outstanding(e) == Len(requests[e]) - Len(fetched[e])

\* every request of enumeration e carries the cursor the chain gives it, and
\* at most one is outstanding, only while the generator awaits it (or after
\* its rejection ended the run)
CursorChained(e) ==
    /\ \A k \in 1..Len(requests[e]) :
          requests[e][k] = IF k = 1 THEN Undefined
                           ELSE fetched[e][k - 1].endCursor
    /\ Outstanding(e) \in {0, 1}
    /\ (Outstanding(e) = 1 <=> gstate[e] \in {"fetching", "error"})

\* C12: in every enumeration the first page request carries the empty
\* cursor, every later request carries the endCursor of the response to the
\* request right before it, and a request is issued only in a step that
\* starts with every earlier request answered: at most one page request is
\* outstanding at any time.
C12_CursorChain ==
    /\ [](\A e \in Enumerations : CursorChained(e))
    /\ [][\A e \in Enumerations :
            requests'[e] # requests[e] =>
                /\ Outstanding(e) = 0
                /\ Len(requests'[e]) = Len(requests[e]) + 1]_vars

\* a second page was requested with the cursor the first response ended at,
\* and answered
C12_Witness ==
    /\ Len(requests[1]) = 2
    /\ Len(fetched[1]) = 2
    /\ requests[1][1] = Undefined
    /\ requests[1][2] = EndCursor(1)
    /\ requests[1][2] # Undefined

(***************************************************************************)
(* C13                                                                     *)
(***************************************************************************)
\* the mutating calls among the calls of a run
CountMutating(cs) == CountCalls(cs, "updateRef") + CountCalls(cs, "createRef")

\* the calls of the current run of invocation i: one lookup, the first call,
\* alone as long as it is awaited, and at most one mutating call after it
LookupThenOneMutation(i) ==
    /\ pc[i] # "idle" =>
         /\ Len(calls[i]) >= 1
         /\ calls[i][1].kind = "listMatchingRefs"
         /\ CountCalls(calls[i], "listMatchingRefs") = 1
    /\ pc[i] = "lookup" => CountMutating(calls[i]) = 0
    /\ CountMutating(calls[i]) <= 1
    /\ Len(calls[i]) <= 2

\* C13: in every run of createRef exactly one existence lookup is issued,
\* its response is received before any create or update call is issued (the
\* mutating call is issued in the step that receives the lookup's answer,
\* never earlier), and at most one mutating call is issued in the whole run.
C13_LookupBeforeMutation ==
    /\ [](\A i \in Invocations : LookupThenOneMutation(i))
    /\ [][\A i \in Invocations :
            CountMutating(calls'[i]) > CountMutating(calls[i]) =>
                /\ pc[i] = "lookup"
                /\ pc'[i] \in {"update", "create"}
                /\ matchingRefs'[i] = ListMatchingRefs(remoteRefs, refName[i])
                /\ CountMutating(calls'[i]) = 1]_vars

\* a finished run that issued its lookup and then one mutating call
C13_Witness ==
    /\ pc[1] = "done"
    /\ Len(calls[1]) = 2
    /\ calls[1][1].kind = "listMatchingRefs"
    /\ calls[1][2].kind \in {"updateRef", "createRef"}
    /\ matchingRefs[1] # {}

(***************************************************************************)
(* C14, under SpecRace.                                                    *)
(***************************************************************************)
\* the run of invocation i ended in an error the other invocation caused:
\* the remote rejected its create call because the ref exists, though the
\* lookup of the run had not found it
FailedByTheOther(i) ==
    /\ pc[i] = "error"
    /\ Len(calls[i]) = 2
    /\ calls[i][2].kind = "createRef"
    /\ ~outcomes[i][Len(outcomes[i])].fault
    /\ TargetOf(calls[i][2]) \notin matchingRefs[i]
    /\ TargetOf(calls[i][2]) \in DOMAIN remoteRefs

\* the commit the store holds for a ref, 0 for a ref it does not hold
PointsAt(refs, r) == IF r \in DOMAIN refs THEN refs[r] ELSE 0

\* C14: for any interleaving of the remote calls of two invocations that run
\* createRef on the same refName, the remote rejecting a create of a ref that
\* exists, neither invocation ends in error because of the other, and the
\* ref points at the commit id of the invocation whose mutating call was
\* applied last: every applied call leaves its target at the commit of its
\* invocation, and a ref only moves when a call is applied.
C14_NoInterference ==
    /\ [](\A i \in Invocations : ~FailedByTheOther(i))
    /\ [][/\ \A i \in Invocations :
               applied'[i] # applied[i] /\ applied'[i] # <<>> =>
                   PointsAt(remoteRefs', TargetOf(applied'[i][Len(applied'[i])]))
                       = GITHUB_SHA[i]
          /\ remoteRefs' # remoteRefs =>
               \E i \in Invocations :
                   /\ calls[i] # <<>>
                   /\ applied'[i] = Append(applied[i], calls[i][Len(calls[i])])
         ]_vars

(***************************************************************************)
(* C15                                                                     *)
(***************************************************************************)
\* the refs of the pages enumeration e received so far, in order
FetchedRefs(e) ==
    Flatten([k \in 1..Len(fetched[e]) |-> fetched[e][k].refsList])

\* C15: listAllRefs is lazy.  A generator that was not pulled has issued no
\* page request; a page request is issued only in a step of a generator that
\* is running on the caller's pull (the first pull, or a pull after a yield),
\* and then every parsing ref of the pages received before was yielded to
\* the caller, who pulled past the last of them; a generator suspended at a
\* yield issues nothing, and once the caller has stopped pulling (the
\* generator is closed) no page request is issued any more.
C15_Lazy ==
    /\ [](\A e \in Enumerations : gstate[e] = "start" => requests[e] = <<>>)
    /\ [][\A e \in Enumerations :
            /\ requests'[e] # requests[e] =>
                 /\ gstate[e] \in {"start", "running"}
                 /\ produced[e] = ParsedPairs(FetchedRefs(e))
                 /\ Len(requests[e]) = Len(fetched[e])
            /\ gstate[e] = "yielded" /\ gstate'[e] # "running" =>
                 requests'[e] = requests[e]
            /\ gstate[e] = "closed" =>
                 /\ gstate'[e] = "closed"
                 /\ requests'[e] = requests[e]
                 /\ produced'[e] = produced[e]]_vars

\* the caller stopped after the first version of a namespace of two pages:
\* the second page was never requested
C15_Witness ==
    /\ gstate[1] = "closed"
    /\ Len(pages) = 2
    /\ Len(produced[1]) = 1
    /\ Len(requests[1]) = 1

(***************************************************************************)
(* C16, under SpecInterleaved.                                             *)
(***************************************************************************)
\* what one enumeration yields when it runs alone to its end from a cursor:
\* the versions of the page the cursor asks for, then those of the pages after
RECURSIVE YieldedAlone(_)
YieldedAlone(cursor) ==
    LET page == ServePage(cursor)
    IN  ParsedPairs(page.refsList)
            \o (IF page.hasNextPage THEN YieldedAlone(page.endCursor) ELSE <<>>)

\* the cursor an enumeration running alone holds after k pages
CursorAlone(k) == IF k = 0 THEN Undefined ELSE EndCursor(k)

IsPrefix(p, q) == Len(p) <= Len(q) /\ SubSeq(q, 1, Len(p)) = p

\* everything enumeration e holds for itself
EnumLocal(e) ==
    <<gstate[e], nextPage[e], repository[e], idx[e], produced[e],
      requests[e], fetched[e], elog[e]>>

\* C16: each call of listAllRefs owns its cursor.  Of two enumerations over
\* an unchanging remote, pulled in any interleaving, each sends its first
\* request with the empty cursor and holds the cursor its own progress
\* gives it, each has yielded a prefix of the sequence it yields when run
\* alone and exactly that sequence when it is done, and a step of one
\* changes nothing the other holds: neither its cursor nor its output.
C16_OwnCursor ==
    /\ [](\A e \in Enumerations :
            /\ requests[e] # <<>> => requests[e][1] = Undefined
            /\ nextPage[e] = IF requests[e] = <<>> THEN Undefined
                             ELSE CursorAlone(Len(requests[e]) - 1)
            /\ IsPrefix(produced[e], YieldedAlone(Undefined))
            /\ gstate[e] = "DONE" => produced[e] = YieldedAlone(Undefined))
    /\ [][\A e, f \in Enumerations :
            e # f /\ EnumLocal(e)' # EnumLocal(e) => EnumLocal(f)' = EnumLocal(f)]_vars

\* both enumerations are under way at the same time, the first on the second
\* page with its own cursor, the second still on the first page
C16_Witness ==
    /\ gstate[1] = "yielded"
    /\ gstate[2] = "yielded"
    /\ nextPage[1] = EndCursor(1)
    /\ nextPage[2] = Undefined
    /\ Len(produced[1]) > Len(produced[2])
    /\ produced[2] # <<>>

(***************************************************************************)
(* C17, under SpecUpsert.                                                  *)
(***************************************************************************)
\* the run of invocation i has written this line
Logged(i, line) == \E k \in 1..Len(log[i]) : log[i][k] = line

\* the remote has applied a call of this kind of the run of invocation i
Applied(i, kind) == \E k \in 1..Len(applied[i]) : applied[i][k].kind = kind

\* the run of invocation i is over
Finished(i) == pc[i] \in {"done", "error"}

\* C17 as stated: every notice describes an action that was taken.  A
\* finished run that wrote 'Updating ref' had its update call applied, one
\* that wrote 'Creating ref' had its create call applied, and the response
\* payload is written only in debug mode and only after the mutating call
\* succeeded.
C17_NoticesOnlyOfAppliedCalls ==
    \A i \in Invocations :
        /\ Finished(i) /\ Logged(i, "Updating ref") => Applied(i, "updateRef")
        /\ Finished(i) /\ Logged(i, "Creating ref") => Applied(i, "createRef")
        /\ Logged(i, "now points to") =>
             isDebug /\ pc[i] = "done" /\ Len(applied[i]) = 1

\* C17 as the code has it: a notice announces the call the run issues.  'Updating ref'
\* is written exactly in a run that issues an update call and 'Creating ref'
\* exactly in a run that issues a create call, each with the call and
\* whether or not the remote then applies it; the response payload is
\* written only in debug mode and only after the mutating call succeeded,
\* and in debug mode every run that succeeds writes it.
C17_NoticesOfIssuedCalls ==
    \A i \in Invocations :
        /\ Logged(i, "Updating ref") <=> CountCalls(calls[i], "updateRef") = 1
        /\ Logged(i, "Creating ref") <=> CountCalls(calls[i], "createRef") = 1
        /\ Logged(i, "now points to") =>
             isDebug /\ pc[i] = "done" /\ Len(applied[i]) = 1
        /\ isDebug /\ pc[i] = "done" => Logged(i, "now points to")

\* a run that announced its update and ended in error with nothing applied
C17_Witness ==
    /\ pc[1] = "error"
    /\ log[1] = <<"Updating ref">>
    /\ CountCalls(calls[1], "updateRef") = 1
    /\ applied[1] = <<>>

(***************************************************************************)
(* C18, under SpecEvent.                                                   *)
(***************************************************************************)
\* C18: on every event context isPublicRelease() and isPreRelease() are not
\* both true, and on a release event (isRelease() true) exactly one of the
\* two is true; isPreRelease() is true exactly when the payload's prerelease
\* flag is the boolean true, whatever the kind of the event.
C18_PublicOrPreRelease ==
    classified # NotClassified =>
        /\ ~(classified.isPublicRelease = "true" /\ classified.isPreRelease = "true")
        /\ classified.isRelease = "true" =>
             (classified.isPublicRelease = "true") # (classified.isPreRelease = "true")
        /\ classified.isPreRelease = Returned(PrereleaseFlagged)

\* a push event whose payload carries a release flagged as prerelease: it is
\* a prerelease and no public release
C18_Witness ==
    /\ context.eventName = "push"
    /\ context.release.present
    /\ context.release.prerelease = "true"
    /\ classified.isPreRelease = "true"
    /\ classified.isPublicRelease = "false"
    /\ classified.isRelease = "false"

=============================================================================
